---- MODULE Spec2Model ----
(***************************************************************************)
(* A model of chan::channel<int> and chan::select (include/channel.hpp).   *)
(*                                                                         *)
(* Every critical section of a channel (the code between taking and        *)
(* releasing channel::m) is one action.  A notifier called inside such a   *)
(* section takes the mutex of its select session, which is free whenever   *)
(* no action of that select is running; it is part of the same action.     *)
(* A thread that sleeps in a condition variable has a pc of its own        *)
(* ("send_wait", "recv_wait"), is moved to "send_woken" / "recv_woken" by  *)
(* notify_one / notify_all (or by a spurious wake-up) and then evaluates   *)
(* the predicate of its wait again under the mutex.                        *)
(***************************************************************************)
EXTENDS Integers, Sequences, FiniteSets, TLC

\* ------------------------------------------------------------------ bounds
\* number of values the threads may send where nobody selects (each send
\* call takes the next value)
MaxVal == 3
\* number of values the threads may send where a thread selects (each send
\* call and each select send case takes the next value)
MaxSelVal == 1
\* number of select calls a selecting thread may make
MaxSel == 1

\* ------------------------------------------------------- the population
Chans == {"c", "d"}
Workers == {"w1", "w2"}
Selectors == {"s1"}

\* T() for T = int
Default == 0
\* what the out slot of a receive holds before the call: something older,
\* which is neither T() nor a value that is sent
Stale == Default - 1
\* `T msg;` and `T zero;` are default-initialised ints: their value is
\* indeterminate, so a read of them yields T() or something else
Garbage == {Default, Stale}

\* std::numeric_limits<int>::max(), the capacity_ of channel()
IntMax == 2147483647

\* the cases a select call is made of: receive on ch, or send on ch
CaseKinds == {"recv", "send"}

VARIABLES
    \* channel<T>, one value per channel
    queue, is_closed_, receivers_, senders_, wait_id,
    recv_wait_list, send_wait_list,
    recv_wait_list_index, send_wait_list_index, capacity_,
    \* threads calling send / recv / close / is_closed, and what the call
    \* that returned last has returned
    pc, op, last,
    \* threads calling select: position and the selector<Ts...> object
    spc, sel,
    \* bookkeeping of the run
    watch, vmax, smax, nextv, nsel, sent, rcvd, drained

chanVars == <<queue, is_closed_, receivers_, senders_, wait_id,
              recv_wait_list, send_wait_list,
              recv_wait_list_index, send_wait_list_index, capacity_>>
workVars == <<pc, op, last>>
selVars == <<spc, sel>>
histVars == <<watch, vmax, smax, nextv, nsel, sent, rcvd, drained>>
vars == <<chanVars, workVars, selVars, histVars>>

\* ----------------------------------------------------------------- helpers
RECURSIVE Count(_, _)
Count(s, v) ==
    IF s = <<>> THEN 0 ELSE (IF Head(s) = v THEN 1 ELSE 0) + Count(Tail(s), v)

IsPrefix(s, t) == Len(s) <= Len(t) /\ SubSeq(t, 1, Len(s)) = s

RemoveId(list, id) == SelectSeq(list, LAMBDA n : n.id # id)

Ids(list) == {list[j].id : j \in 1..Len(list)}

\* capacity_ + receivers_ is an int sum: past INT_MAX it wraps by 2^32 on the
\* usual builds (2^32 = 2 * IntMax + 2)
add_int(a, b) ==
    IF a > IntMax - b THEN (a - IntMax) + (b - IntMax) - 2 ELSE a + b

\* queue.size() < n is compared in size_t, where a negative int n is larger
\* than any size
size_less(size, n) == IF n < 0 THEN TRUE ELSE size < n

\* lines 103, 295 and 302: queue.size() < capacity_ + receivers_
has_room(size, cap, rcv) == size_less(size, add_int(cap, rcv))

\* ------------------------------------------------- the select session
\* a selector<Ts...> that has not been constructed
NoSel ==
    [cases |-> <<>>, def |-> FALSE, k |-> 0, wait_id |-> <<>>, how |-> <<>>,
     completed |-> FALSE, selected |-> 0, dat |-> <<>>, closed |-> <<>>,
     ran |-> 0, acc |-> {}]

\* a notify_recv that completes the call without writing the out slot
notify_recv_unwritten(ss, i, val, closedArg) ==
    IF ss.completed
    THEN [ok |-> FALSE, ss |-> ss]
    ELSE [ok |-> TRUE,
          ss |-> [ss EXCEPT !.closed[i] = closedArg, !.selected = i,
                            !.completed = TRUE, !.acc = @ \cup {i}]]

\* a notify_recv that leaves the closed slot alone
notify_recv_unmarked(ss, i, val, closedArg) ==
    IF ss.completed
    THEN [ok |-> FALSE, ss |-> ss]
    ELSE [ok |-> TRUE,
          ss |-> [ss EXCEPT !.dat[i] = val, !.selected = i,
                            !.completed = TRUE, !.acc = @ \cup {i}]]

\* selector<T, Ts...>::notify_recv of case i of session ss; acc keeps the
\* cases whose notifier has returned true
notify_recv(ss, i, val, closedArg) ==
    IF ss.completed
    THEN [ok |-> FALSE, ss |-> ss]
    ELSE [ok |-> TRUE,
          ss |-> [ss EXCEPT !.dat[i] = val, !.closed[i] = closedArg,
                            !.selected = i, !.completed = TRUE,
                            !.acc = @ \cup {i}]]

\* selector<T, Ts...>::notify_send of case i of session ss; val is the
\* caller's T & msg as it is after the call
notify_send(ss, i, msg, closedArg) ==
    IF ss.completed
    THEN [ok |-> FALSE, ss |-> ss, val |-> msg]
    ELSE [ok |-> TRUE,
          ss |-> [ss EXCEPT !.closed[i] = closedArg,
                            !.selected = i, !.completed = TRUE,
                            !.acc = @ \cup {i}],
          val |-> IF ~closedArg THEN ss.cases[i].v ELSE msg]

\* a walk that gives up after the first waiter
send_walk_once(list, index, S, msg) ==
    IF list = <<>>
    THEN [accepted |-> FALSE, list |-> list, index |-> index, sel |-> S]
    ELSE LET n == Head(list)
             r == notify_recv(S[n.s], n.i, msg, FALSE)
         IN  [accepted |-> r.ok, list |-> Tail(list),
              index |-> index \ {n.id}, sel |-> [S EXCEPT ![n.s] = r.ss]]

\* the loop of channel::send over recv_wait_list: pop the head, erase its
\* id, offer it msg; stop at the first notifier that accepts
RECURSIVE send_walk(_, _, _, _)
send_walk(list, index, S, msg) ==
    IF list = <<>>
    THEN [accepted |-> FALSE, list |-> list, index |-> index, sel |-> S]
    ELSE LET n == Head(list)
             r == notify_recv(S[n.s], n.i, msg, FALSE)
             S2 == [S EXCEPT ![n.s] = r.ss]
         IN  IF r.ok
             THEN [accepted |-> TRUE, list |-> Tail(list),
                   index |-> index \ {n.id}, sel |-> S2]
             ELSE send_walk(Tail(list), index \ {n.id}, S2, msg)

\* the loop of channel::recv over send_wait_list: pop the head, erase its
\* id, ask it for a value; stop at the first notifier that produces one
RECURSIVE recv_walk(_, _, _, _)
recv_walk(list, index, S, msg) ==
    IF list = <<>>
    THEN [accepted |-> FALSE, list |-> list, index |-> index, sel |-> S,
          val |-> msg]
    ELSE LET n == Head(list)
             r == notify_send(S[n.s], n.i, msg, FALSE)
             S2 == [S EXCEPT ![n.s] = r.ss]
         IN  IF r.ok
             THEN [accepted |-> TRUE, list |-> Tail(list),
                   index |-> index \ {n.id}, sel |-> S2, val |-> r.val]
             ELSE recv_walk(Tail(list), index \ {n.id}, S2, r.val)

\* an empty_recv_wait_list that pops the waiters without calling them
empty_recv_wait_list_silent(list, S, zero) == S

\* channel::empty_recv_wait_list: every waiter is popped and notified with
\* (zero, true); what the notifier returns is ignored
RECURSIVE empty_recv_wait_list(_, _, _)
empty_recv_wait_list(list, S, zero) ==
    IF list = <<>> THEN S
    ELSE LET n == Head(list)
             r == notify_recv(S[n.s], n.i, zero, TRUE)
         IN  empty_recv_wait_list(Tail(list), [S EXCEPT ![n.s] = r.ss], zero)

\* channel::empty_send_wait_list
RECURSIVE empty_send_wait_list(_, _, _)
empty_send_wait_list(list, S, zero) ==
    IF list = <<>> THEN S
    ELSE LET n == Head(list)
             r == notify_send(S[n.s], n.i, zero, TRUE)
         IN  empty_send_wait_list(Tail(list), [S EXCEPT ![n.s] = r.ss], zero)

\* ------------------------------------------------- condition variables
\* the threads asleep in cond_recv / cond_send of channel ch, given pc p
Sleepers(p, ch, st) ==
    {u \in DOMAIN p :
        /\ op[u].c = ch
        /\ p[u] = st \/ (st = "send_wait" /\ p[u] = "dtor_wait")}

Woken(st) ==
    IF st = "recv_wait" THEN "recv_woken"
    ELSE IF st = "dtor_wait" THEN "dtor_woken" ELSE "send_woken"

\* a notify_one() that is lost
notify_one_lost(p, ch, st) == {p}

\* cond.notify_one(): one sleeper, if there is any, is woken
notify_one(p, ch, st) ==
    IF Sleepers(p, ch, st) = {} THEN {p}
    ELSE {[p EXCEPT ![u] = Woken(p[u])] : u \in Sleepers(p, ch, st)}

\* cond_send.notify_all(); cond_recv.notify_all()
notify_all(p, ch) ==
    [u \in DOMAIN p |->
        IF op[u].c = ch /\ p[u] \in {"recv_wait", "send_wait", "dtor_wait"}
        THEN Woken(p[u]) ELSE p[u]]


\* ------------------------------------------------------------ bookkeeping
\* the call of a worker that returned last, kept when "calls" is watched:
\* the call, its channel, the returned bool, the out slot (of a recv) or the
\* value (of a send) after the call, whether the call slept in a condition
\* variable
NoRes ==
    [kind |-> "none", c |-> "c", ret |-> FALSE, v |-> Default,
     slept |-> FALSE]

Res(kind, ch, ret, v, slept) ==
    IF "calls" \in watch
    THEN [kind |-> kind, c |-> ch, ret |-> ret, v |-> v, slept |-> slept]
    ELSE last

NoOp == [c |-> "c", v |-> Default]

\* the values whose send has been reported successful and the values handed
\* to receivers, each in the order of the reports; kept when "values" is
\* watched.  drained[ch]: a recv on the closed channel ch has returned false;
\* kept when "calls" is watched.
Sent(v) == IF "values" \in watch THEN Append(sent, v) ELSE sent
Rcvd(v) == IF "values" \in watch THEN Append(rcvd, v) ELSE rcvd
Drained(ch) ==
    IF "calls" \in watch THEN [drained EXCEPT ![ch] = TRUE] ELSE drained

\* -------------------------------------------------------------------- Init
\* channel() and channel(size_t capacity), lines 396-405: empty, open, no
\* waiters; the threads are outside of any call
InitAll(T, S, w, caps, vm, sm) ==
    /\ queue = [ch \in Chans |-> <<>>]
    /\ is_closed_ = [ch \in Chans |-> FALSE]
    /\ receivers_ = [ch \in Chans |-> 0]
    /\ senders_ = [ch \in Chans |-> 0]
    /\ wait_id = [ch \in Chans |-> 0]
    /\ recv_wait_list = [ch \in Chans |-> <<>>]
    /\ send_wait_list = [ch \in Chans |-> <<>>]
    /\ recv_wait_list_index = [ch \in Chans |-> {}]
    /\ send_wait_list_index = [ch \in Chans |-> {}]
    /\ capacity_ \in caps
    /\ pc = [t \in T |-> "idle"]
    /\ op = [t \in T |-> NoOp]
    /\ last = NoRes
    /\ spc = [s \in S |-> "idle"]
    /\ sel = [s \in S |-> NoSel]
    /\ watch = w
    /\ vmax = vm
    /\ smax = sm
    /\ nextv = 1
    /\ nsel = 0
    /\ sent = <<>>
    /\ rcvd = <<>>
    /\ drained = [ch \in Chans |-> FALSE]

InitOn(T, w, caps, vm) == InitAll(T, Selectors, w, caps, vm, MaxSel)

InitWith(w, caps, vm) == InitOn(Workers, w, caps, vm)

\* a send that does not look at the closed flag
send_accepts_closed(closedFlag) == FALSE

\* ------------------------------------------------------- channel::send
\* line 264: a closed channel refuses the send
send_refused(closedFlag) == closedFlag

\* a buffer that takes new values at its head
push_at_head(q, msg) == <<msg>> \o q

\* line 311: this->queue.push_back(msg)
push_back(q, msg) == Append(q, msg)

\* lines 260-319, up to the return or to the sleep in cond_send.wait
SendCall(t, ch, wait) ==
    /\ pc[t] = "idle"
    /\ nextv <= vmax
    /\ nextv' = nextv + 1
    /\ UNCHANGED <<is_closed_, receivers_, wait_id, send_wait_list,
                   send_wait_list_index, capacity_, spc, nsel, rcvd, drained, watch, vmax,
                   smax>>
    /\ IF send_refused(is_closed_[ch])
       THEN /\ last' = Res("send", ch, FALSE, nextv, FALSE)
            /\ UNCHANGED <<queue, senders_, recv_wait_list,
                           recv_wait_list_index, pc, op, sel, sent>>
       ELSE LET w == send_walk(recv_wait_list[ch], recv_wait_list_index[ch],
                               sel, nextv)
            IN  /\ recv_wait_list' = [recv_wait_list EXCEPT ![ch] = w.list]
                /\ recv_wait_list_index' =
                       [recv_wait_list_index EXCEPT ![ch] = w.index]
                /\ sel' = w.sel
                /\ IF w.accepted
                   THEN /\ last' = Res("send", ch, TRUE, nextv, FALSE)
                        /\ sent' = Sent(nextv)
                        /\ UNCHANGED <<queue, senders_, pc, op>>
                   ELSE IF ~has_room(Len(queue[ch]), capacity_[ch],
                                     receivers_[ch])
                   THEN IF ~wait
                        THEN /\ last' = Res("send", ch, FALSE, nextv, FALSE)
                             /\ UNCHANGED <<queue, senders_, pc, op, sent>>
                        ELSE /\ pc' = [pc EXCEPT ![t] = "send_wait"]
                             /\ op' = [op EXCEPT ![t] = [c |-> ch, v |-> nextv]]
                             /\ senders_' = [senders_ EXCEPT ![ch] = @ + 1]
                             /\ UNCHANGED <<queue, last, sent>>
                   ELSE /\ queue' = [queue EXCEPT ![ch] = push_back(@, nextv)]
                        /\ pc' \in notify_one(pc, ch, "recv_wait")
                        /\ last' = Res("send", ch, TRUE, nextv, FALSE)
                        /\ sent' = Sent(nextv)
                        /\ UNCHANGED <<senders_, op>>

\* lines 302-318: a sender woken in cond_send.wait evaluates the predicate
\* and sleeps again, or gives up on a closed channel, or enqueues
SendWake(t) ==
    /\ pc[t] = "send_woken"
    /\ LET ch == op[t].c
           v == op[t].v
       IN  /\ UNCHANGED <<is_closed_, receivers_, wait_id, recv_wait_list,
                          send_wait_list, recv_wait_list_index,
                          send_wait_list_index, capacity_, selVars, nextv,
                          nsel, rcvd, drained, watch, vmax,
                   smax>>
           /\ IF ~(is_closed_[ch] \/ has_room(Len(queue[ch]), capacity_[ch],
                                              receivers_[ch]))
              THEN /\ pc' = [pc EXCEPT ![t] = "send_wait"]
                   /\ UNCHANGED <<queue, senders_, op, last, sent>>
              ELSE /\ senders_' = [senders_ EXCEPT ![ch] = @ - 1]
                   /\ op' = [op EXCEPT ![t] = NoOp]
                   /\ IF is_closed_[ch]
                      THEN /\ last' = Res("send", ch, FALSE, v, TRUE)
                           /\ pc' = [pc EXCEPT ![t] = "idle"]
                           /\ UNCHANGED <<queue, sent>>
                      ELSE /\ queue' = [queue EXCEPT ![ch] = push_back(@, v)]
                           /\ pc' \in notify_one([pc EXCEPT ![t] = "idle"],
                                                 ch, "recv_wait")
                           /\ last' = Res("send", ch, TRUE, v, TRUE)
                           /\ sent' = Sent(v)

\* a condition variable may wake a sleeper without a notify
Spurious(t) ==
    /\ pc[t] \in {"send_wait", "recv_wait", "dtor_wait"}
    /\ pc' = [pc EXCEPT ![t] = Woken(pc[t])]
    /\ UNCHANGED <<chanVars, op, last, selVars, histVars>>


\* ------------------------------------------------------- channel::recv
\* lines 369-372: what the out slot holds when recv finds nothing; the code
\* does not write msg on this path
recv_fail_slot(pre) == pre

\* lines 361-383: take the head of the queue or fail, leave the receive,
\* and wake everybody when the last value left a closed channel.  rcv is
\* receivers_ with this receive counted, P the pc's the caller allows.
recv_tail(t, ch, pre, rcv, P, slept) ==
    LET got == Len(queue[ch]) > 0
        q2 == IF got THEN Tail(queue[ch]) ELSE queue[ch]
        out == IF got THEN Head(queue[ch]) ELSE recv_fail_slot(pre)
    IN  /\ queue' = [queue EXCEPT ![ch] = q2]
        /\ receivers_' = [receivers_ EXCEPT ![ch] = rcv - 1]
        /\ last' = Res("recv", ch, got, out, slept)
        /\ op' = [op EXCEPT ![t] = NoOp]
        /\ rcvd' = IF got THEN Rcvd(out) ELSE rcvd
        /\ drained' = IF ~got /\ is_closed_[ch] THEN Drained(ch) ELSE drained
        /\ \E p \in P :
              pc' = IF got /\ is_closed_[ch] /\ q2 = <<>>
                    THEN notify_all([p EXCEPT ![t] = "idle"], ch)
                    ELSE [p EXCEPT ![t] = "idle"]

\* lines 322-384, up to the return or to the sleep in cond_recv.wait
RecvCall(t, ch, wait) ==
    /\ pc[t] = "idle"
    /\ UNCHANGED <<is_closed_, senders_, wait_id, recv_wait_list,
                   recv_wait_list_index, capacity_, spc, nextv, nsel, sent, watch, vmax,
                   smax>>
    /\ LET w == recv_walk(send_wait_list[ch], send_wait_list_index[ch],
                          sel, Stale)
           P == IF wait /\ senders_[ch] > 0 /\ Len(queue[ch]) = 0
                THEN notify_one(pc, ch, "send_wait") ELSE {pc}
       IN  /\ send_wait_list' = [send_wait_list EXCEPT ![ch] = w.list]
           /\ send_wait_list_index' =
                  [send_wait_list_index EXCEPT ![ch] = w.index]
           /\ sel' = w.sel
           /\ IF w.accepted
              THEN /\ last' = Res("recv", ch, TRUE, w.val, FALSE)
                   /\ rcvd' = Rcvd(w.val)
                   /\ UNCHANGED <<queue, receivers_, pc, op, drained>>
              ELSE IF wait /\ ~(Len(queue[ch]) > 0 \/ is_closed_[ch])
              THEN /\ receivers_' = [receivers_ EXCEPT ![ch] = @ + 1]
                   /\ op' = [op EXCEPT ![t] = [c |-> ch, v |-> w.val]]
                   /\ \E p \in P : pc' = [p EXCEPT ![t] = "recv_wait"]
                   /\ UNCHANGED <<queue, last, rcvd, drained>>
              ELSE recv_tail(t, ch, w.val, receivers_[ch] + 1, P, FALSE)

\* lines 358-384: a receiver woken in cond_recv.wait evaluates the predicate
\* and sleeps again or goes on
RecvWake(t) ==
    /\ pc[t] = "recv_woken"
    /\ UNCHANGED <<is_closed_, senders_, wait_id, recv_wait_list,
                   send_wait_list, recv_wait_list_index, send_wait_list_index,
                   capacity_, selVars, nextv, nsel, sent, watch, vmax,
                   smax>>
    /\ LET ch == op[t].c
       IN  IF ~(Len(queue[ch]) > 0 \/ is_closed_[ch])
           THEN /\ pc' = [pc EXCEPT ![t] = "recv_wait"]
                /\ UNCHANGED <<queue, receivers_, op, last, rcvd,
                               drained>>
           ELSE recv_tail(t, ch, op[t].v, receivers_[ch], {pc}, TRUE)

\* a close() that flips the closed flag
close_flips(t, ch) ==
    /\ pc[t] = "idle"
    /\ is_closed_' = [is_closed_ EXCEPT ![ch] = ~@]
    /\ last' = Res("close", ch, TRUE, Default, FALSE)
    /\ UNCHANGED <<queue, receivers_, senders_, wait_id, recv_wait_list,
                   send_wait_list, recv_wait_list_index,
                   send_wait_list_index, capacity_, pc, op, selVars, nextv,
                   nsel, sent, rcvd, drained, watch, vmax, smax>>

\* ------------------------------------------------------ channel::close
\* lines 242-257
Close(t, ch) ==
    /\ pc[t] = "idle"
    /\ last' = Res("close", ch, TRUE, Default, FALSE)
    /\ UNCHANGED <<queue, receivers_, senders_, wait_id, capacity_, op, spc,
                   nextv, nsel, sent, rcvd, drained, watch, vmax,
                   smax>>
    /\ IF ~is_closed_[ch]
       THEN /\ is_closed_' = [is_closed_ EXCEPT ![ch] = TRUE]
            /\ \E zero \in (IF recv_wait_list[ch] = <<>>
                            THEN {Default} ELSE Garbage) :
                  sel' = empty_send_wait_list(send_wait_list[ch],
                             empty_recv_wait_list(recv_wait_list[ch], sel,
                                                  zero),
                             Default)
            /\ recv_wait_list' = [recv_wait_list EXCEPT ![ch] = <<>>]
            /\ send_wait_list' = [send_wait_list EXCEPT ![ch] = <<>>]
            /\ recv_wait_list_index' =
                   [recv_wait_list_index EXCEPT ![ch] = {}]
            /\ send_wait_list_index' =
                   [send_wait_list_index EXCEPT ![ch] = {}]
            /\ pc' = IF Len(queue[ch]) = 0 THEN notify_all(pc, ch) ELSE pc
       ELSE UNCHANGED <<is_closed_, sel, recv_wait_list, send_wait_list,
                        recv_wait_list_index, send_wait_list_index, pc>>

\* an is_closed() that reports the closed flag alone
is_closed_flag_only(size, closedFlag) == closedFlag

\* -------------------------------------------------- channel::is_closed
\* lines 385-389
is_closed(size, closedFlag) == size = 0 /\ closedFlag

IsClosed(t, ch) ==
    /\ pc[t] = "idle"
    /\ last' = Res("is_closed", ch,
                    is_closed(Len(queue[ch]), is_closed_[ch]), Default, FALSE)
    /\ UNCHANGED <<chanVars, pc, op, selVars, histVars>>


\* ---------------------------------------------------------------- select
\* the statements a select call may be given: one case on c, or a case on c
\* followed by a case on d
Case == [kind : CaseKinds, c : Chans]
Shapes ==
    {<<a>> : a \in {x \in Case : x.c = "c"}} \cup
    {<<a, b>> : a \in {x \in Case : x.c = "c"}, b \in {x \in Case : x.c = "d"}}

SendCases(cs) == {j \in 1..Len(cs) : cs[j].kind = "send"}

\* the values of the send cases of cs: the next fresh values, in case order
CaseVal(cs, j) ==
    IF cs[j].kind = "send"
    THEN nextv + Cardinality({m \in SendCases(cs) : m < j})
    ELSE Default

\* the index that stands for the default case in `ran`
DefaultIdx(ss) == Len(ss.cases) + 1

\* a select whose first case is the only one that registers
first_case_front(n) == 1

\* selector<T, Ts...> is derived from selector<Ts...>: the base, that is the
\* cases to the right, is constructed first, so the last case registers first
first_case(n) == n
next_case(k) == k - 1
cases_done(k, n) == k = 0

\* select(rs...), lines 689-696, and the member initialisers of the
\* selectors, lines 546-548 and 588-589
SelectCall(s, cs, hasDefault) ==
    /\ spc[s] = "idle"
    /\ nsel < smax
    /\ nextv + Cardinality(SendCases(cs)) <= vmax + 1
    /\ nsel' = nsel + 1
    /\ nextv' = nextv + Cardinality(SendCases(cs))
    /\ sel' = [sel EXCEPT ![s] =
          [cases |-> [j \in 1..Len(cs) |->
                         [kind |-> cs[j].kind, c |-> cs[j].c,
                          v |-> CaseVal(cs, j)]],
           def |-> hasDefault,
           k |-> first_case(Len(cs)),
           wait_id |-> [j \in 1..Len(cs) |-> 0],
           how |-> [j \in 1..Len(cs) |-> "skip"],
           completed |-> FALSE, selected |-> 0,
           dat |-> [j \in 1..Len(cs) |-> Stale],
           closed |-> [j \in 1..Len(cs) |-> FALSE],
           ran |-> 0, acc |-> {}]]
    /\ spc' = [spc EXCEPT ![s] = "reg_check"]
    /\ UNCHANGED <<chanVars, workVars, sent, rcvd,
                   drained, watch, vmax,
                   smax>>

\* where the constructors go after case k
AfterCase(ss, k) ==
    IF cases_done(next_case(k), Len(ss.cases)) THEN "decide" ELSE "reg_check"

\* lines 593-595: the constructor of case k reads completed (without the
\* mutex) and returns at once when an earlier constructor completed
RegCheck(s) ==
    /\ spc[s] = "reg_check"
    /\ LET ss == sel[s]
       IN  IF ss.completed
           THEN /\ sel' = [sel EXCEPT ![s].k = next_case(ss.k)]
                /\ spc' = [spc EXCEPT ![s] = AfterCase(ss, ss.k)]
           ELSE /\ spc' = [spc EXCEPT ![s] = "reg_call"]
                /\ UNCHANGED sel
    /\ UNCHANGED <<chanVars, workVars, histVars>>


\* a rollback that does not put the value back
requeue_dropped(q, msg) == q

\* line 56: c.queue.push_front(msg)
requeue(q, msg) == <<msg>> \o q

\* detail::__recv_or_notify, lines 27-89, called by the constructor of
\* case i of session s.  how[i] keeps what the call did: "sync" (the notifier
\* took the value or the close), "rollback" (the notifier refused and msg was
\* pushed to the front), "wait" (registered on recv_wait_list).
recv_or_notify(s, i, ch) ==
    LET ss == sel[s]
        fromQ == Len(queue[ch]) > 0
        send_closed == ~fromQ /\ is_closed_[ch]
        no_wait == fromQ \/ is_closed_[ch]
    IN  /\ UNCHANGED <<is_closed_, receivers_, senders_, send_wait_list,
                       send_wait_list_index, capacity_, op, last, nextv, nsel,
                       sent, rcvd, drained, watch, vmax,
                   smax>>
        /\ IF no_wait
           THEN \E g \in (IF fromQ THEN {Default} ELSE Garbage) :
                  LET msg == IF fromQ THEN Head(queue[ch]) ELSE g
                      q1 == IF fromQ THEN Tail(queue[ch]) ELSE queue[ch]
                      r == notify_recv(ss, i, msg, send_closed)
                      q2 == IF r.ok THEN q1 ELSE requeue(q1, msg)
                  IN  /\ queue' = [queue EXCEPT ![ch] = q2]
                      /\ sel' = [sel EXCEPT ![s] =
                            [r.ss EXCEPT !.k = next_case(i),
                                 !.how[i] = IF r.ok THEN "sync" ELSE "rollback"]]
                      /\ pc' = IF ~send_closed /\ q2 = <<>> /\ is_closed_[ch]
                               THEN notify_all(pc, ch) ELSE pc
                      /\ UNCHANGED <<wait_id, recv_wait_list,
                                     recv_wait_list_index>>
           ELSE /\ wait_id' = [wait_id EXCEPT ![ch] = @ + 1]
                /\ recv_wait_list' = [recv_wait_list EXCEPT ![ch] =
                       Append(@, [id |-> wait_id[ch] + 1, s |-> s, i |-> i])]
                /\ recv_wait_list_index' = [recv_wait_list_index EXCEPT
                       ![ch] = @ \cup {wait_id[ch] + 1}]
                /\ sel' = [sel EXCEPT ![s] =
                       [ss EXCEPT !.k = next_case(i), !.how[i] = "wait",
                                  !.wait_id[i] = wait_id[ch] + 1]]
                /\ UNCHANGED <<queue, pc>>

\* detail::__send_or_notify, lines 92-123, called by the constructor of
\* case i of session s
send_or_notify(s, i, ch) ==
    LET ss == sel[s]
    IN  /\ UNCHANGED <<is_closed_, receivers_, senders_, recv_wait_list,
                       recv_wait_list_index, capacity_, op, last, nextv, nsel,
                       sent, rcvd, drained, watch, vmax,
                   smax>>
        /\ IF is_closed_[ch]
           THEN LET r == notify_send(ss, i, Default, TRUE)
                IN  /\ sel' = [sel EXCEPT ![s] =
                          [r.ss EXCEPT !.k = next_case(i),
                               !.how[i] = IF r.ok THEN "sync" ELSE "rollback"]]
                    /\ UNCHANGED <<queue, pc, wait_id, send_wait_list,
                                   send_wait_list_index>>
           ELSE IF has_room(Len(queue[ch]), capacity_[ch], receivers_[ch])
           THEN LET r == notify_send(ss, i, Default, FALSE)
                IN  /\ sel' = [sel EXCEPT ![s] =
                          [r.ss EXCEPT !.k = next_case(i),
                               !.how[i] = IF r.ok THEN "sync" ELSE "rollback"]]
                    /\ IF r.ok
                       THEN /\ queue' = [queue EXCEPT ![ch] = Append(@, r.val)]
                            /\ pc' \in notify_one(pc, ch, "recv_wait")
                       ELSE UNCHANGED <<queue, pc>>
                    /\ UNCHANGED <<wait_id, send_wait_list,
                                   send_wait_list_index>>
           ELSE /\ wait_id' = [wait_id EXCEPT ![ch] = @ + 1]
                /\ send_wait_list' = [send_wait_list EXCEPT ![ch] =
                       Append(@, [id |-> wait_id[ch] + 1, s |-> s, i |-> i])]
                /\ send_wait_list_index' = [send_wait_list_index EXCEPT
                       ![ch] = @ \cup {wait_id[ch] + 1}]
                /\ sel' = [sel EXCEPT ![s] =
                       [ss EXCEPT !.k = next_case(i), !.how[i] = "wait",
                                  !.wait_id[i] = wait_id[ch] + 1]]
                /\ UNCHANGED <<queue, pc>>

\* lines 597-602: the constructor of case k registers on its channel
RegCall(s) ==
    /\ spc[s] = "reg_call"
    /\ LET i == sel[s].k
           cs == sel[s].cases[i]
       IN  /\ spc' = [spc EXCEPT ![s] = AfterCase(sel[s], i)]
           /\ IF cs.kind = "send"
              THEN send_or_notify(s, i, cs.c)
              ELSE recv_or_notify(s, i, cs.c)

\* a select that runs its default case without reading completed
after_construction_blind(hasDefault, completedFlag) ==
    IF hasDefault THEN "default_action" ELSE "wait_action"

\* select_inner<true>::select, lines 664-676, and select_inner<false>,
\* lines 681-685: with a default case get_completed() decides between the
\* winning action and the default action
after_construction(hasDefault, completedFlag) ==
    IF hasDefault /\ ~completedFlag THEN "default_action" ELSE "wait_action"

Decide(s) ==
    /\ spc[s] = "decide"
    /\ spc' = [spc EXCEPT
               ![s] = after_construction(sel[s].def, sel[s].completed)]
    /\ UNCHANGED <<chanVars, workVars, sel, histVars>>

\* selector<>::wait_and_action, lines 550-558: wait for completed, then run
\* selected_action; the destructors follow, the first case first
WaitAndAction(s) ==
    /\ spc[s] = "wait_action"
    /\ sel[s].completed
    /\ sel' = [sel EXCEPT ![s].ran = sel[s].selected, ![s].k = 1]
    /\ spc' = [spc EXCEPT ![s] = "dtor"]
    /\ UNCHANGED <<chanVars, workVars, histVars>>

\* line 675: ps->action()
DefaultAction(s) ==
    /\ spc[s] = "default_action"
    /\ sel' = [sel EXCEPT ![s].ran = DefaultIdx(sel[s]), ![s].k = 1]
    /\ spc' = [spc EXCEPT ![s] = "dtor"]
    /\ UNCHANGED <<chanVars, workVars, histVars>>

\* a destructor that leaves its registration behind
must_unnotify_never(id) == FALSE

\* line 607: the destructor of a case deregisters when it holds an id
must_unnotify(id) == id # 0

\* ~selector of case k, lines 605-609, and detail::__unnotify, lines 128-145
Dtor(s) ==
    /\ spc[s] = "dtor"
    /\ sel[s].k <= Len(sel[s].cases)
    /\ LET k == sel[s].k
           ch == sel[s].cases[k].c
           id == sel[s].wait_id[k]
       IN  /\ sel' = [sel EXCEPT ![s].k = k + 1]
           /\ IF must_unnotify(id) /\ id \in recv_wait_list_index[ch]
              THEN /\ recv_wait_list' = [recv_wait_list EXCEPT
                                         ![ch] = RemoveId(@, id)]
                   /\ recv_wait_list_index' = [recv_wait_list_index EXCEPT
                                               ![ch] = @ \ {id}]
                   /\ UNCHANGED <<send_wait_list, send_wait_list_index>>
              ELSE IF must_unnotify(id) /\ id \in send_wait_list_index[ch]
              THEN /\ send_wait_list' = [send_wait_list EXCEPT
                                         ![ch] = RemoveId(@, id)]
                   /\ send_wait_list_index' = [send_wait_list_index EXCEPT
                                               ![ch] = @ \ {id}]
                   /\ UNCHANGED <<recv_wait_list, recv_wait_list_index>>
              ELSE UNCHANGED <<recv_wait_list, recv_wait_list_index,
                               send_wait_list, send_wait_list_index>>
    /\ UNCHANGED <<queue, is_closed_, receivers_, senders_, wait_id,
                   capacity_, workVars, spc, histVars>>

\* select returns.  The caller has received a value when the action of a
\* receive case ran with closed = false, and has sent one when the action of
\* a send case ran with closed = false.
SelectReturn(s) ==
    /\ spc[s] = "dtor"
    /\ sel[s].k > Len(sel[s].cases)
    /\ spc' = [spc EXCEPT ![s] = "idle"]
    /\ LET ss == sel[s]
           won == ss.ran \in 1..Len(ss.cases) /\ ~ss.closed[ss.ran]
       IN  /\ rcvd' = IF won /\ ss.cases[ss.ran].kind = "recv"
                     THEN Rcvd(ss.dat[ss.ran]) ELSE rcvd
           /\ sent' = IF won /\ ss.cases[ss.ran].kind = "send"
                     THEN Sent(ss.cases[ss.ran].v) ELSE sent
    /\ UNCHANGED <<chanVars, workVars, sel, nextv, nsel,
                   drained, watch, vmax,
                   smax>>

\* ------------------------------------------------------------------- Specs
\* Spec: a thread selects on c and d while other threads send, receive and
\* close.  c is a rendezvous channel (capacity 0) or unbounded, d is
\* unbounded.
SelCaps == {[ch \in Chans |-> IF ch = "c" THEN n ELSE IntMax] : n \in {0, IntMax}}

Init == InitWith({}, SelCaps, MaxSelVal)

Next ==
    \/ \E t \in Workers, ch \in Chans, wait \in BOOLEAN : SendCall(t, ch, wait)
    \/ \E t \in Workers : SendWake(t)
    \/ \E t \in Workers, ch \in Chans, wait \in BOOLEAN : RecvCall(t, ch, wait)
    \/ \E t \in Workers : RecvWake(t)
    \/ \E t \in Workers : Spurious(t)
    \/ \E t \in Workers, ch \in Chans : Close(t, ch)
    \/ \E s \in Selectors, cs \in Shapes, d \in BOOLEAN : SelectCall(s, cs, d)
    \/ \E s \in Selectors : RegCheck(s)
    \/ \E s \in Selectors : RegCall(s)
    \/ \E s \in Selectors : Decide(s)
    \/ \E s \in Selectors : WaitAndAction(s)
    \/ \E s \in Selectors : DefaultAction(s)
    \/ \E s \in Selectors : Dtor(s)
    \/ \E s \in Selectors : SelectReturn(s)

Spec == Init /\ [][Next]_vars

\* SpecValues: the same threads, the sent and the received values watched
InitValues == InitWith({"values"}, SelCaps, MaxSelVal)

SpecValues == InitValues /\ [][Next]_vars

\* SpecCalls: the same threads, what the calls return watched
InitCalls == InitWith({"calls"}, SelCaps, MaxSelVal)

SpecCalls == InitCalls /\ [][Next]_vars

\* SpecChan: threads that send, receive, close and ask is_closed on the one
\* channel c, of capacity 0, 1, 2 or unbounded; nobody selects
ChanCaps ==
    {[ch \in Chans |-> IF ch = "c" THEN n ELSE IntMax] : n \in {0, 1, 2, IntMax}}

InitChan == InitWith({"calls"}, ChanCaps, MaxVal)

NextChan ==
    \/ \E t \in Workers, wait \in BOOLEAN : SendCall(t, "c", wait)
    \/ \E t \in Workers : SendWake(t)
    \/ \E t \in Workers, wait \in BOOLEAN : RecvCall(t, "c", wait)
    \/ \E t \in Workers : RecvWake(t)
    \/ \E t \in Workers : Spurious(t)
    \/ \E t \in Workers : Close(t, "c")
    \/ \E t \in Workers : IsClosed(t, "c")

SpecChan == InitChan /\ [][NextChan]_vars

\* SpecFifo: one producer, w1, and one consumer, w2, on the channel c
InitFifo == InitWith({"values"}, ChanCaps, MaxVal)

NextFifo ==
    \/ \E wait \in BOOLEAN : SendCall("w1", "c", wait)
    \/ SendWake("w1")
    \/ \E wait \in BOOLEAN : RecvCall("w2", "c", wait)
    \/ RecvWake("w2")
    \/ \E t \in Workers : Spurious(t)

SpecFifo == InitFifo /\ [][NextFifo]_vars

\* the wait lists and their id indexes go together
IndexOK ==
    \A ch \in Chans :
        /\ Ids(recv_wait_list[ch]) = recv_wait_list_index[ch]
        /\ Ids(send_wait_list[ch]) = send_wait_list_index[ch]


\* ------------------------------------------------ threads that must wake
\* three threads on channel c.  A thread that was notified in a condition
\* variable goes on as soon as it gets the mutex; nothing makes a condition
\* variable wake a thread that was not notified.
Trio == Workers \cup {"w3"}

InitLive == InitOn(Trio, {"calls"}, ChanCaps, MaxVal)

NextLive ==
    \/ \E t \in Trio : \E wait \in BOOLEAN : SendCall(t, "c", wait)
    \/ \E t \in Trio : SendWake(t)
    \/ \E t \in Trio : \E wait \in BOOLEAN : RecvCall(t, "c", wait)
    \/ \E t \in Trio : RecvWake(t)
    \/ \E t \in Trio : Spurious(t)
    \/ \E t \in Trio : Close(t, "c")

WakeFair == \A t \in Trio : WF_vars(SendWake(t)) /\ WF_vars(RecvWake(t))

SpecLive == InitLive /\ [][NextLive]_vars /\ WakeFair

\* ---------------------------------------------------- channel::~channel
\* lines 435-451: under the mutex the buffer is cleared and the channel is
\* closed as close() does; then, the mutex released, both condition
\* variables are notified
Destroy(t, ch) ==
    /\ pc[t] = "idle"
    /\ queue' = [queue EXCEPT ![ch] = <<>>]
    /\ is_closed_' = [is_closed_ EXCEPT ![ch] = TRUE]
    /\ IF ~is_closed_[ch]
       THEN \E zero \in (IF recv_wait_list[ch] = <<>>
                         THEN {Default} ELSE Garbage) :
               sel' = empty_send_wait_list(send_wait_list[ch],
                          empty_recv_wait_list(recv_wait_list[ch], sel, zero),
                          Default)
       ELSE UNCHANGED sel
    /\ recv_wait_list' = [recv_wait_list EXCEPT
           ![ch] = IF is_closed_[ch] THEN @ ELSE <<>>]
    /\ send_wait_list' = [send_wait_list EXCEPT
           ![ch] = IF is_closed_[ch] THEN @ ELSE <<>>]
    /\ recv_wait_list_index' = [recv_wait_list_index EXCEPT
           ![ch] = IF is_closed_[ch] THEN @ ELSE {}]
    /\ send_wait_list_index' = [send_wait_list_index EXCEPT
           ![ch] = IF is_closed_[ch] THEN @ ELSE {}]
    /\ op' = [op EXCEPT ![t] = [c |-> ch, v |-> Default]]
    /\ pc' = [notify_all(pc, ch) EXCEPT ![t] = "dtor_check"]
    /\ UNCHANGED <<receivers_, senders_, wait_id, capacity_, last, spc,
                   histVars>>

\* line 454, the predicate of the wait
receivers_left(rcv) == rcv = 0

\* line 454: cond_send.wait(lock, [this]{ return receivers_ == 0; }) with a
\* lock that was released at line 448.  The predicate is read first; when it
\* is false, waiting on a lock that is not held is undefined: the thread
\* sleeps in cond_send as it would with the lock held, or the wait returns
\* at once and the loop around it polls the predicate
DtorCheck(t) ==
    /\ pc[t] \in {"dtor_check", "dtor_woken", "dtor_poll"}
    /\ IF receivers_left(receivers_[op[t].c])
       THEN pc' = [pc EXCEPT ![t] = "gone"]
       ELSE /\ pc[t] # "dtor_poll"
            /\ \E to \in {"dtor_wait", "dtor_poll"} :
                  pc' = [pc EXCEPT ![t] = to]
    /\ UNCHANGED <<chanVars, op, last, selVars, histVars>>

\* the channel is used by its threads until one of them destroys it
Alive(ch) ==
    \A t \in DOMAIN pc :
        pc[t] \in {"dtor_check", "dtor_wait", "dtor_woken", "dtor_poll",
                   "gone"} => op[t].c # ch

InitTeardown == InitOn(Trio, {"calls"}, ChanCaps, MaxVal)

NextTeardown ==
    \/ \E t \in Trio : \E wait \in BOOLEAN :
          Alive("c") /\ SendCall(t, "c", wait)
    \/ \E t \in Trio : SendWake(t)
    \/ \E t \in Trio : \E wait \in BOOLEAN :
          Alive("c") /\ RecvCall(t, "c", wait)
    \/ \E t \in Trio : RecvWake(t)
    \/ \E t \in Trio : Spurious(t)
    \/ \E t \in Trio : Alive("c") /\ Close(t, "c")
    \/ \E t \in Trio : Alive("c") /\ Destroy(t, "c")
    \/ \E t \in Trio : DtorCheck(t)

TeardownFair ==
    \A t \in Trio :
        WF_vars(SendWake(t)) /\ WF_vars(RecvWake(t)) /\ WF_vars(DtorCheck(t))

SpecTeardown == InitTeardown /\ [][NextTeardown]_vars /\ TeardownFair

\* ------------------------------------------- two threads calling select
\* two threads that call select with one case on channel c each, with or
\* without a default case, beside one thread that calls send, recv and close
Duo == Selectors \cup {"s2"}
Solo == {"w1"}
OnC == {<<a>> : a \in {x \in Case : x.c = "c"}}
DuoCaps ==
    {[ch \in Chans |-> IF ch = "c" THEN n ELSE IntMax] : n \in {0, 1, IntMax}}

InitDuo == InitAll(Solo, Duo, {}, DuoCaps, MaxVal, MaxSel + 1)

NextDuo ==
    \/ \E t \in Solo : \E wait \in BOOLEAN : SendCall(t, "c", wait)
    \/ \E t \in Solo : SendWake(t)
    \/ \E t \in Solo : \E wait \in BOOLEAN : RecvCall(t, "c", wait)
    \/ \E t \in Solo : RecvWake(t)
    \/ \E t \in Solo : Spurious(t)
    \/ \E t \in Solo : Close(t, "c")
    \/ \E s \in Duo : \E cs \in OnC : \E d \in BOOLEAN : SelectCall(s, cs, d)
    \/ \E s \in Duo : RegCheck(s)
    \/ \E s \in Duo : RegCall(s)
    \/ \E s \in Duo : Decide(s)
    \/ \E s \in Duo : WaitAndAction(s)
    \/ \E s \in Duo : DefaultAction(s)
    \/ \E s \in Duo : Dtor(s)
    \/ \E s \in Duo : SelectReturn(s)

SpecDuo == InitDuo /\ [][NextDuo]_vars

\* ------------------------------------------------- a select that goes on
\* one thread calling send, recv and close on c and d beside one thread
\* calling select, which takes its next step in the end: the constructors,
\* get_completed, the action and the destructors are straight-line code,
\* and wait_and_action goes on once completed is set
\* (notify_recv / notify_send set it under the selector's mutex and notify
\* cv afterwards).  Threads outside select are free to make no further call.
SelectFair ==
    \A s \in Selectors :
        /\ WF_vars(RegCheck(s)) /\ WF_vars(RegCall(s)) /\ WF_vars(Decide(s))
        /\ WF_vars(WaitAndAction(s)) /\ WF_vars(DefaultAction(s))
        /\ WF_vars(Dtor(s)) /\ WF_vars(SelectReturn(s))

InitSelect == InitAll(Solo, Selectors, {}, SelCaps, MaxSelVal, MaxSel)

NextSelect ==
    \/ \E t \in Solo, ch \in Chans, wait \in BOOLEAN : SendCall(t, ch, wait)
    \/ \E t \in Solo : SendWake(t)
    \/ \E t \in Solo, ch \in Chans, wait \in BOOLEAN : RecvCall(t, ch, wait)
    \/ \E t \in Solo : RecvWake(t)
    \/ \E t \in Solo : Spurious(t)
    \/ \E t \in Solo, ch \in Chans : Close(t, ch)
    \/ \E s \in Selectors, cs \in Shapes, d \in BOOLEAN : SelectCall(s, cs, d)
    \/ \E s \in Selectors : RegCheck(s)
    \/ \E s \in Selectors : RegCall(s)
    \/ \E s \in Selectors : Decide(s)
    \/ \E s \in Selectors : WaitAndAction(s)
    \/ \E s \in Selectors : DefaultAction(s)
    \/ \E s \in Selectors : Dtor(s)
    \/ \E s \in Selectors : SelectReturn(s)

SpecSelect == InitSelect /\ [][NextSelect]_vars /\ SelectFair

\* SpecClosed: the threads of SpecSelect without the fairness, what the
\* calls return watched
InitClosed == InitAll(Solo, Selectors, {"calls"}, SelCaps, MaxSelVal, MaxSel)

SpecClosed == InitClosed /\ [][NextSelect]_vars

\* ------------------------------------- a select action that closes c
\* StressTestSelect, channel_test.cpp lines 372-441, with one producer
\* thread: it sends NVal values into c and then one end-token into d (the
\* test's to_close).  The consumer loops on
\*     select(case_receive(tie(val, is_closed), c, f), case_receive(d, g))
\* while is_closed is false; g counts the end-tokens and calls c.close()
\* when all of them (here: the one) have arrived.
NVal == MaxSelVal + 1
\* a select call completes one case, so the loop takes at most one pass per
\* value, one for the end-token and one that reports closed
MaxPass == NVal + 2

Loop == <<[kind |-> "recv", c |-> "c"], [kind |-> "recv", c |-> "d"]>>

\* lines 390-396: the producer's next send
Produce(t) ==
    SendCall(t, IF nextv <= NVal THEN "c" ELSE "d", TRUE)

\* line 406: while(!is_closed); is_closed is the closed slot of the case on
\* c, written by its notifier
LoopOn(s) == IF sel[s].closed = <<>> THEN TRUE ELSE ~sel[s].closed[1]

LoopSelect(s) == LoopOn(s) /\ SelectCall(s, Loop, FALSE)

\* wait_and_action, lines 550-558, when the case on c has won: its action
\* touches no channel
ActionOnC(s) == sel[s].selected = 1 /\ WaitAndAction(s)

\* wait_and_action when the case on d has won: the thread holds the mutex m
\* of its selector (line 551) and selected_action() is about to call
\* c.close(), which starts by taking the mutex of c (line 243)
ActionOnD(s) ==
    /\ spc[s] = "wait_action"
    /\ sel[s].completed
    /\ sel[s].selected = 2
    /\ spc' = [spc EXCEPT ![s] = "closing"]
    /\ UNCHANGED <<chanVars, workVars, sel, histVars>>

\* the thread of session s holds the mutex of its selector
HoldsSelect(s) == spc[s] \in {"closing", "stuck"}
\* the thread of session s asks for the mutex of channel ch
RequestsChannel(s, ch) == spc[s] = "closing" /\ ch = "c"

\* what locking a std::mutex does to the thread that owns it: undefined;
\* the thread waits for itself forever, or lock() throws std::system_error
Relock == {"stuck", "threw"}

\* the first waiter of session s in list, 0 if there is none
OwnWaiter(list, s) ==
    IF \E j \in 1..Len(list) : list[j].s = s
    THEN CHOOSE j \in 1..Len(list) :
            list[j].s = s /\ \A m \in 1..(j - 1) : list[m].s # s
    ELSE 0

\* c.close() called by the action of the case on d, lines 242-257, under the
\* mutex of the selector.  empty_recv_wait_list pops each waiter and calls
\* its notifier; the notifier of a case of this same select (the case on c,
\* registered and not yet destroyed) locks the selector's mutex again at
\* line 636.
CloseInAction(s) ==
    /\ spc[s] = "closing"
    /\ UNCHANGED <<queue, receivers_, senders_, wait_id, capacity_, op, last,
                   send_wait_list, send_wait_list_index, histVars>>
    /\ IF is_closed_["c"]
       THEN /\ sel' = [sel EXCEPT ![s].ran = sel[s].selected, ![s].k = 1]
            /\ spc' = [spc EXCEPT ![s] = "dtor"]
            /\ UNCHANGED <<is_closed_, recv_wait_list, recv_wait_list_index,
                           pc>>
       ELSE LET list == recv_wait_list["c"]
                own == OwnWaiter(list, s)
            IN  /\ is_closed_' = [is_closed_ EXCEPT !["c"] = TRUE]
                /\ IF own # 0
                   THEN /\ \E zero \in Garbage :
                              sel' = empty_recv_wait_list(
                                         SubSeq(list, 1, own - 1), sel, zero)
                        /\ recv_wait_list' = [recv_wait_list EXCEPT
                               !["c"] = SubSeq(list, own + 1, Len(list))]
                        /\ recv_wait_list_index' = [recv_wait_list_index
                               EXCEPT !["c"] =
                                   @ \ {list[j].id : j \in 1..own}]
                        /\ \E out \in Relock :
                              spc' = [spc EXCEPT ![s] = out]
                        /\ UNCHANGED pc
                   ELSE /\ sel' = [sel EXCEPT ![s].ran = sel[s].selected,
                                              ![s].k = 1]
                        /\ recv_wait_list' = [recv_wait_list EXCEPT
                                              !["c"] = <<>>]
                        /\ recv_wait_list_index' = [recv_wait_list_index
                                                    EXCEPT !["c"] = {}]
                        /\ spc' = [spc EXCEPT ![s] = "dtor"]
                        /\ pc' = IF Len(queue["c"]) = 0
                                 THEN notify_all(pc, "c") ELSE pc

InitLoop ==
    InitAll(Solo, Selectors, {"values"},
            {[ch \in Chans |-> IntMax]}, NVal + 1, MaxPass)

NextLoop ==
    \/ \E t \in Solo : Produce(t)
    \/ \E s \in Selectors : LoopSelect(s)
    \/ \E s \in Selectors : RegCheck(s)
    \/ \E s \in Selectors : RegCall(s)
    \/ \E s \in Selectors : Decide(s)
    \/ \E s \in Selectors : ActionOnC(s)
    \/ \E s \in Selectors : ActionOnD(s)
    \/ \E s \in Selectors : CloseInAction(s)
    \/ \E s \in Selectors : Dtor(s)
    \/ \E s \in Selectors : SelectReturn(s)

\* every thread that can take a step takes it in the end
LoopFair ==
    /\ \A t \in Solo : WF_vars(Produce(t))
    /\ \A s \in Selectors :
          /\ WF_vars(LoopSelect(s)) /\ WF_vars(RegCheck(s))
          /\ WF_vars(RegCall(s)) /\ WF_vars(Decide(s))
          /\ WF_vars(ActionOnC(s)) /\ WF_vars(ActionOnD(s))
          /\ WF_vars(CloseInAction(s)) /\ WF_vars(Dtor(s))
          /\ WF_vars(SelectReturn(s))

SpecLoop == InitLoop /\ [][NextLoop]_vars /\ LoopFair

\* ------------------------------------------- a select that runs alone
\* one thread sends, receives and closes on c and d while nobody selects;
\* then a thread calls select and nothing else runs until it has returned
Quiet == \A s \in Selectors : spc[s] = "idle"

InitAlone == InitAll(Solo, Selectors, {}, SelCaps, MaxSelVal + 1, MaxSel)

NextAlone ==
    \/ \E t \in Solo, ch \in Chans : Quiet /\ SendCall(t, ch, FALSE)
    \/ \E t \in Solo, ch \in Chans : Quiet /\ RecvCall(t, ch, FALSE)
    \/ \E t \in Solo, ch \in Chans : Quiet /\ Close(t, ch)
    \/ \E s \in Selectors, cs \in Shapes, d \in BOOLEAN : SelectCall(s, cs, d)
    \/ \E s \in Selectors : RegCheck(s)
    \/ \E s \in Selectors : RegCall(s)
    \/ \E s \in Selectors : Decide(s)
    \/ \E s \in Selectors : WaitAndAction(s)
    \/ \E s \in Selectors : DefaultAction(s)
    \/ \E s \in Selectors : Dtor(s)
    \/ \E s \in Selectors : SelectReturn(s)

SpecAlone == InitAlone /\ [][NextAlone]_vars

\* ------------------------------------- two selects, one or two cases
\* two threads that call select, the first with one case on c or with a
\* case on c and a case on d, the second with one case on c, no default
\* case, beside one thread that calls send<false> on c and d and
\* recv<false> on c (the walk over the wait list comes before the test of
\* `wait` in both); c has capacity 0, so that send cases register as waiters
PairCaps == {[ch \in Chans |-> IF ch = "c" THEN 0 ELSE IntMax]}

InitPair == InitAll(Solo, Duo, {"calls"}, PairCaps, MaxSelVal + 2, MaxSel + 1)

NextPair ==
    \/ \E t \in Solo, ch \in Chans : SendCall(t, ch, FALSE)
    \/ \E t \in Solo : RecvCall(t, "c", FALSE)
    \/ \E s \in Selectors, cs \in Shapes : SelectCall(s, cs, FALSE)
    \/ \E s \in Duo \ Selectors, cs \in OnC : SelectCall(s, cs, FALSE)
    \/ \E s \in Duo : RegCheck(s)
    \/ \E s \in Duo : RegCall(s)
    \/ \E s \in Duo : Decide(s)
    \/ \E s \in Duo : WaitAndAction(s)
    \/ \E s \in Duo : Dtor(s)
    \/ \E s \in Duo : SelectReturn(s)

SpecPair == InitPair /\ [][NextPair]_vars

\* ------------------------------------------------------------------ claims
Returned(s) == spc[s] = "idle" /\ sel[s].cases # <<>>

\* how often v is in the buffer of some channel
RECURSIVE InQueues(_, _)
InQueues(chs, v) ==
    IF chs = {} THEN 0
    ELSE LET ch == CHOOSE x \in chs : TRUE
         IN  Count(queue[ch], v) + InQueues(chs \ {ch}, v)

Seen == {Default, Stale} \cup (1..vmax)

\* C1: exactly-once delivery.  Whenever no select call is in progress, every
\* value is in the buffers and in the hands of the receivers together exactly
\* as often as its send has been reported successful: no value is lost, none
\* is delivered twice, none is delivered that was never sent.
C1_ExactlyOnce ==
    (\A s \in Selectors : spc[s] = "idle") =>
        \A v \in Seen : Count(rcvd, v) + InQueues(Chans, v) = Count(sent, v)

\* C2: per-producer FIFO.  With one producer and one consumer the values
\* received are, in order, the first of the values sent.
C2_Fifo == IsPrefix(rcvd, sent)

\* C2 witness: the consumer has received two values, the first two sent
C2_Witness == Len(rcvd) >= 2 /\ IsPrefix(rcvd, sent)

\* C3: select admits exactly one winner.  At any time at most one case has
\* been committed, and once the call has returned the case whose notifier
\* accepted is the case whose action ran: none when the default action ran.
C3_SingleWinner ==
    \A s \in Selectors :
        /\ Cardinality(sel[s].acc) <= 1
        /\ Returned(s) =>
              IF sel[s].ran = DefaultIdx(sel[s])
              THEN sel[s].acc = {}
              ELSE sel[s].acc = {sel[s].ran}

\* C4: send after close.  A send() that starts on a closed channel returns
\* false at once and leaves the buffer, the wait lists, their indexes and the
\* closed flag as they were.
C4_SendAfterClose ==
    [][\A t \in Workers : \A w \in BOOLEAN :
          (is_closed_["c"] /\ SendCall(t, "c", w)) =>
              /\ last'.kind = "send" /\ ~last'.ret /\ ~last'.slept
              /\ pc'[t] = "idle"
              /\ UNCHANGED <<queue, is_closed_, recv_wait_list, send_wait_list,
                             recv_wait_list_index, send_wait_list_index>>]_vars

\* C4 witness: a send has just been refused by a closed channel that still
\* holds buffered values
C4_Witness ==
    /\ last.kind = "send" /\ ~last.ret /\ ~last.slept
    /\ is_closed_[last.c] /\ queue[last.c] # <<>>

\* C5: close-drain.  Once a receive on a closed channel has returned false,
\* no later receive on that channel returns true.
C5_CloseDrain ==
    (last.kind = "recv" /\ last.ret) => ~drained[last.c]

\* C6: a receive that returns false because the channel is closed and empty
\* leaves the default-constructed value in the caller's out slot.
C6_DefaultOnClosed ==
    (last.kind = "recv" /\ ~last.ret /\ is_closed_[last.c]) => last.v = Default

\* C7: is_closed() returns true exactly when the closed flag is set and the
\* buffer is empty.
C7_IsClosed ==
    last.kind = "is_closed" =>
        (last.ret <=> (is_closed_[last.c] /\ queue[last.c] = <<>>))

\* C7 witness: is_closed() has answered false on a channel whose flag is set
\* and whose buffer still holds a value
C7_Witness ==
    /\ last.kind = "is_closed" /\ ~last.ret
    /\ is_closed_[last.c] /\ queue[last.c] # <<>>

C9_Cleanup ==
    \A s \in Selectors :
        Returned(s) =>
            /\ \A ch \in Chans :
                  /\ \A n \in 1..Len(recv_wait_list[ch]) :
                        recv_wait_list[ch][n].s # s
                  /\ \A n \in 1..Len(send_wait_list[ch]) :
                        send_wait_list[ch][n].s # s
            /\ \A i \in 1..Len(sel[s].cases) :
                  sel[s].wait_id[i] # 0 =>
                      /\ sel[s].wait_id[i]
                            \notin recv_wait_list_index[sel[s].cases[i].c]
                      /\ sel[s].wait_id[i]
                            \notin send_wait_list_index[sel[s].cases[i].c]

\* C9 witness: a select call has returned through its default case after a
\* case of it had been registered as a waiter and was never notified
C9_Witness ==
    \E s \in Selectors :
        /\ Returned(s)
        /\ sel[s].ran = DefaultIdx(sel[s])
        /\ sel[s].acc = {}
        /\ \E i \in 1..Len(sel[s].cases) : sel[s].wait_id[i] # 0

Ready(ss) == {i \in 1..Len(ss.cases) : ss.how[i] \in {"sync", "rollback"}}
AllWaited(ss) == \A i \in 1..Len(ss.cases) : ss.how[i] = "wait"

\* C10, as stated: a select call with a default case never blocks; when some
\* case is ready at registration a non-default action runs, and when no case
\* is ready at registration the default action runs.
C10_DefaultAsStated ==
    \A s \in Selectors :
        sel[s].def =>
            /\ spc[s] = "wait_action" => sel[s].completed
            /\ Returned(s) =>
                  /\ Ready(sel[s]) # {} => sel[s].ran \in 1..Len(sel[s].cases)
                  /\ AllWaited(sel[s]) => sel[s].ran = DefaultIdx(sel[s])

\* C10, amended: a select call with a default case never blocks; when some
\* case is ready at registration a non-default action runs, that of the case
\* whose notifier accepted; when no case is ready at registration and no
\* other thread has completed a registered case, the default action runs.
C10_Default ==
    \A s \in Selectors :
        sel[s].def =>
            /\ spc[s] = "wait_action" => sel[s].completed
            /\ Returned(s) =>
                  /\ Ready(sel[s]) # {} => sel[s].ran \in 1..Len(sel[s].cases)
                  /\ \A i \in 1..Len(sel[s].cases) :
                        sel[s].how[i] = "sync" => sel[s].ran = i
                  /\ (AllWaited(sel[s]) /\ sel[s].acc = {})
                        => sel[s].ran = DefaultIdx(sel[s])
                  /\ sel[s].ran # DefaultIdx(sel[s])
                        => sel[s].acc = {sel[s].ran}

\* C10 witness: a select call with two cases and a default case has returned
\* through the default case, both cases having been registered as waiters
C10_Witness ==
    \E s \in Selectors :
        /\ Returned(s) /\ sel[s].def
        /\ Len(sel[s].cases) = 2
        /\ AllWaited(sel[s]) /\ sel[s].acc = {}
        /\ sel[s].ran = DefaultIdx(sel[s])

\* C13: a blocking send that is suspended on a full buffer returns after
\* close() has been called on the channel, whatever the buffer holds then.
C13_SendEndsAfterClose ==
    \A t \in Trio :
        (pc[t] = "send_wait" /\ is_closed_[op[t].c]) ~> (pc[t] = "idle")

\* C14: a blocking send that is suspended on an open bounded channel does
\* not stay suspended once the buffer has room for its value.
C14_SendEndsWithRoom ==
    \A t \in Trio :
        []<>~(/\ pc[t] = "send_wait"
              /\ ~is_closed_[op[t].c]
              /\ has_room(Len(queue[op[t].c]), capacity_[op[t].c],
                          receivers_[op[t].c]))

\* C15: a blocking recv that is suspended on an empty open channel does not
\* stay suspended while the buffer holds a value or the channel is closed;
\* when it returns it returns true with the head of the buffer if there is
\* one, and false only from a closed, empty channel.
C15_RecvEnds ==
    /\ \A t \in Trio :
          []<>~(/\ pc[t] = "recv_wait"
                /\ (queue[op[t].c] # <<>> \/ is_closed_[op[t].c]))
    /\ [][\A t \in Trio :
             (pc[t] = "recv_woken" /\ pc'[t] = "idle") =>
                 /\ last'.kind = "recv" /\ last'.slept
                 /\ last'.ret = (queue[op[t].c] # <<>>)
                 /\ last'.ret => /\ last'.v = Head(queue[op[t].c])
                                 /\ queue'[op[t].c] = Tail(queue[op[t].c])
                 /\ ~last'.ret => is_closed_[op[t].c]]_vars

\* C15 witness: two receivers were suspended on the empty open channel, two
\* values have been sent and both receivers have been notified
C15_Witness ==
    \E t, u \in Trio :
        /\ t # u
        /\ pc[t] = "recv_woken" /\ pc[u] = "recv_woken"
        /\ op[t].c = "c" /\ op[u].c = "c"
        /\ Len(queue["c"]) = 2
        /\ ~is_closed_["c"]

\* C16: teardown terminates.  A destructor that waits for the receivers of
\* its channel returns once the receiver count is 0.
C16_TeardownEnds ==
    \A t \in Trio :
        (pc[t] = "dtor_wait" /\ receivers_[op[t].c] = 0) ~> (pc[t] = "gone")

\* C17: channel invariant 1.  In every state the buffer of a channel is
\* empty or its receive wait list is empty.
C17_NoWaiterWithValue ==
    \A ch \in Chans : queue[ch] = <<>> \/ recv_wait_list[ch] = <<>>

\* C18: channel invariant 2.  In every state the buffer of a channel holds
\* at least capacity_ values or its send wait list is empty.
C18_NoWaiterWithRoom ==
    \A ch \in Chans :
        send_wait_list[ch] = <<>> \/ Len(queue[ch]) >= capacity_[ch]

\* the waiters registered on channel ch, receive waiters first: the order in
\* which close() walks them
Waiters(ch) == recv_wait_list[ch] \o send_wait_list[ch]

\* C19: channel invariant 3.  In every state in which is_closed_ is set, both
\* wait lists and both id indexes of the channel are empty; the close() that
\* sets is_closed_ calls the notifier of every registered waiter with
\* closed = true (a session that had not completed is completed by that call,
\* with the waiter's case selected and its closed slot set; a session that
\* had completed is left as it was), leaves no waiter behind to be called
\* again, and no later step registers on the closed channel.
C19_ClosedEmpty ==
    /\ [](\A ch \in Chans : is_closed_[ch] =>
            /\ recv_wait_list[ch] = <<>> /\ send_wait_list[ch] = <<>>
            /\ recv_wait_list_index[ch] = {} /\ send_wait_list_index[ch] = {})
    /\ [][\A ch \in Chans : (~is_closed_[ch] /\ is_closed_'[ch]) =>
            \A j \in 1..Len(Waiters(ch)) :
                LET n == Waiters(ch)[j]
                    before == sel[n.s]
                    after == sel'[n.s]
                    first == \A m \in 1..(j - 1) : Waiters(ch)[m].s # n.s
                IN  /\ after.completed
                    /\ before.completed => after = before
                    /\ (~before.completed /\ first) =>
                          /\ after.selected = n.i
                          /\ after.closed[n.i]
                          /\ after.acc = {n.i}]_vars
    /\ [][\A ch \in Chans : is_closed_[ch] =>
            /\ wait_id'[ch] = wait_id[ch]
            /\ recv_wait_list'[ch] = <<>> /\ send_wait_list'[ch] = <<>>]_vars

\* a session whose registered case was completed by close(): the channel is
\* closed and the case that waited has its closed slot set
C19_Witness ==
    \E s \in DOMAIN sel : \E i \in 1..Len(sel[s].cases) :
        /\ sel[s].how[i] = "wait"
        /\ sel[s].closed[i]
        /\ sel[s].selected = i
        /\ is_closed_[sel[s].cases[i].c]

\* the consumer loop of the producer/terminator scenario is over: select has
\* returned with is_closed set
LoopOver(s) == spc[s] = "idle" /\ ~LoopOn(s)

\* C12: producer/terminator scenario.  In every fair run the consumer loop
\* ends, and when it has ended every value sent into c has been consumed
\* exactly once and c is closed.
C12_LoopEnds ==
    /\ \A s \in Selectors : <>LoopOver(s)
    /\ [](\A s \in Selectors : LoopOver(s) =>
            /\ is_closed_["c"]
            /\ \A v \in 1..NVal : Count(rcvd, v) = 1)

\* C20: lock order.  No thread that holds the mutex of its select session
\* asks for the mutex of a channel.
C20_LockOrder ==
    \A s \in Selectors : \A ch \in Chans :
        ~(HoldsSelect(s) /\ RequestsChannel(s, ch))

\* case i of the select call of session s is on a channel that is closed
\* and, for a receive case, drained
OnClosed(s, i) ==
    /\ i \in 1..Len(sel[s].cases)
    /\ is_closed_[sel[s].cases[i].c]
    /\ sel[s].cases[i].kind = "recv" => queue[sel[s].cases[i].c] = <<>>

\* the select call of session s has just started: no constructor has run
Started(s) ==
    /\ spc[s] = "reg_check"
    /\ sel[s].k = Len(sel[s].cases)
    /\ \A j \in 1..Len(sel[s].cases) : sel[s].how[j] = "skip"

\* case i of session s has won with closed = true
WonClosed(ss, i) == ss.completed /\ ss.selected = i /\ ss.closed[i]

\* C11 as stated: a select call that starts with a case on a closed and
\* drained channel returns after the action of that case has run with
\* closed = true.
C11_ClosedAsStated ==
    \A s \in Selectors : \A i \in 1..2 :
        (Started(s) /\ OnClosed(s, i))
            ~> (/\ spc[s] = "idle"
                /\ i \in 1..Len(sel[s].cases)
                /\ sel[s].ran = i
                /\ sel[s].closed[i])

\* C11: a select call with a case on a closed channel returns.  The case on
\* the closed channel wins with closed = true when its constructor runs on
\* the closed and drained channel, or when close() finds it registered,
\* unless another case of the call has completed before; the action that
\* runs in wait_and_action is the one of the case that won.
C11_ClosedSelectReturns ==
    /\ \A s \in Selectors :
          (spc[s] # "idle" /\ \E i \in 1..2 : OnClosed(s, i))
              ~> (spc[s] = "idle")
    /\ [][\A s \in Selectors :
            (spc[s] = "reg_call" /\ spc'[s] # "reg_call"
             /\ OnClosed(s, sel[s].k) /\ ~sel[s].completed)
                => WonClosed(sel'[s], sel[s].k)]_vars
    /\ [][\A s \in Selectors : \A i \in 1..2 :
            (/\ spc[s] = "wait_action" /\ ~sel[s].completed
             /\ i \in 1..Len(sel[s].cases)
             /\ ~is_closed_[sel[s].cases[i].c]
             /\ is_closed_'[sel[s].cases[i].c]
             /\ sel[s].how[i] = "wait")
                => WonClosed(sel'[s], i)]_vars
    /\ [][\A s \in Selectors :
            (spc[s] = "wait_action" /\ spc'[s] # "wait_action")
                => sel'[s].ran = sel[s].selected /\ sel[s].completed]_vars

\* a select call that slept in wait_and_action, was completed by close()
\* and has returned after running the action of the closed case
C11_Witness ==
    \E s \in Selectors : \E i \in 1..2 :
        /\ spc[s] = "idle"
        /\ i \in 1..Len(sel[s].cases)
        /\ ~sel[s].def
        /\ sel[s].how[i] = "wait"
        /\ sel[s].ran = i
        /\ sel[s].closed[i]

\* case j of the select call of session s would complete at once: a value
\* or a close to receive, room or a close for a send
ReadyNow(s, j) ==
    LET cs == sel[s].cases[j]
    IN  IF cs.kind = "recv"
        THEN queue[cs.c] # <<>> \/ is_closed_[cs.c]
        ELSE \/ is_closed_[cs.c]
             \/ has_room(Len(queue[cs.c]), capacity_[cs.c], receivers_[cs.c])

\* the step in which the constructor of a case commits the select call
Commits(s) ==
    spc[s] = "reg_call" /\ ~sel[s].completed /\ sel'[s].completed

\* C21 as stated: among the cases that are ready when a select call runs
\* alone, the one listed first is committed.
C21_FirstReadyWins ==
    [][\A s \in Selectors :
          Commits(s) => \A j \in 1..(sel[s].k - 1) : ~ReadyNow(s, j)]_vars

\* C21: among the cases that are ready when a select call runs alone, the one
\* listed last is committed (the constructors run from the last case to the
\* first); the action of that case is the one that runs, and once the call
\* is committed the cases listed before it are skipped and no buffer and no
\* closed flag changes until select has returned.
C21_LastReadyWins ==
    /\ [][\A s \in Selectors :
            Commits(s) =>
                /\ sel'[s].selected = sel[s].k
                /\ \A j \in (sel[s].k + 1)..Len(sel[s].cases) :
                      ~ReadyNow(s, j) /\ sel[s].how[j] = "wait"]_vars
    /\ [][\A s \in Selectors :
            (spc[s] # "idle" /\ sel[s].completed) =>
                /\ queue' = queue /\ is_closed_' = is_closed_
                /\ sel'[s].selected = sel[s].selected
                /\ \A j \in 1..(sel[s].selected - 1) :
                      sel'[s].how[j] = "skip"]_vars
    /\ [](\A s \in Selectors :
            (Returned(s) /\ sel[s].completed) => sel[s].ran = sel[s].selected)

\* a select call with two cases that were both ready has returned: the
\* second case took its value, the first was skipped and its channel still
\* holds its value
C21_Witness ==
    \E s \in Selectors :
        /\ Returned(s)
        /\ Len(sel[s].cases) = 2
        /\ sel[s].cases[1].kind = "recv" /\ sel[s].cases[2].kind = "recv"
        /\ sel[s].ran = 2 /\ ~sel[s].closed[2]
        /\ sel[s].how[1] = "skip"
        /\ queue["c"] # <<>>

\* the first waiter of list whose select call has not completed, that is
\* the first one whose notifier accepts; 0 if every notifier rejects
FirstTaker(list) ==
    IF \E j \in 1..Len(list) : ~sel[list[j].s].completed
    THEN CHOOSE j \in 1..Len(list) :
            /\ ~sel[list[j].s].completed
            /\ \A m \in 1..(j - 1) : sel[list[m].s].completed
    ELSE 0

\* the waiters 1..k of list are gone from list and index, the others are
\* left in their order
Removed(list, index, k, list2, index2) ==
    /\ list2 = SubSeq(list, k + 1, Len(list))
    /\ index2 = index \ {list[j].id : j \in 1..k}

\* the select call of waiter n, and no other, has been completed by this
\* step, with case n.i selected and closed = false
Taken(n) ==
    /\ sel'[n.s].completed /\ sel'[n.s].selected = n.i
    /\ ~sel'[n.s].closed[n.i] /\ sel'[n.s].acc = {n.i}
    /\ \A s \in DOMAIN sel : s # n.s => sel'[s] = sel[s]

\* C22: wait-list handoff is FIFO.  A send() on an open channel with
\* registered receive waiters offers its value to them from the head of the
\* list, removes every waiter it offers to and stops at the first one that
\* accepts: that waiter's select gets the value and the buffer is left alone;
\* when all reject, all are removed and the value goes to the buffer or to
\* nobody.  A recv() walks the send wait list in the same way and returns the
\* value of the first waiter that produces one, leaving the buffer alone.
C22_HandoffFifo ==
    /\ [][\A t \in DOMAIN pc : \A ch \in Chans : \A w \in BOOLEAN :
            (~is_closed_[ch] /\ recv_wait_list[ch] # <<>>
             /\ SendCall(t, ch, w)) =>
                LET list == recv_wait_list[ch]
                    k == FirstTaker(list)
                IN  IF k # 0
                    THEN /\ Removed(list, recv_wait_list_index[ch], k,
                                    recv_wait_list'[ch],
                                    recv_wait_list_index'[ch])
                         /\ Taken(list[k])
                         /\ sel'[list[k].s].dat[list[k].i] = nextv
                         /\ queue' = queue
                         /\ last'.kind = "send" /\ last'.ret
                         /\ last'.v = nextv
                    ELSE /\ Removed(list, recv_wait_list_index[ch], Len(list),
                                    recv_wait_list'[ch],
                                    recv_wait_list_index'[ch])
                         /\ sel' = sel
                         /\ \/ queue' = queue
                            \/ queue' = [queue EXCEPT
                                         ![ch] = Append(@, nextv)]]_vars
    /\ [][\A t \in DOMAIN pc : \A ch \in Chans : \A w \in BOOLEAN :
            (send_wait_list[ch] # <<>> /\ RecvCall(t, ch, w)) =>
                LET list == send_wait_list[ch]
                    k == FirstTaker(list)
                IN  IF k # 0
                    THEN /\ Removed(list, send_wait_list_index[ch], k,
                                    send_wait_list'[ch],
                                    send_wait_list_index'[ch])
                         /\ Taken(list[k])
                         /\ queue' = queue
                         /\ last'.kind = "recv" /\ last'.ret
                         /\ last'.v = sel[list[k].s].cases[list[k].i].v
                    ELSE /\ Removed(list, send_wait_list_index[ch], Len(list),
                                    send_wait_list'[ch],
                                    send_wait_list_index'[ch])
                         /\ sel' = sel
                         /\ \/ queue' = queue
                            \/ queue' = [queue EXCEPT ![ch] = Tail(@)]]_vars

\* a recv() has walked past the waiter of a completed select call and has
\* returned the value of the send case registered after it: the first
\* session (completed through its case on d, destructors not yet run) has
\* lost its entry on c, the second has given its value
C22_Witness ==
    LET a == sel["s1"]
        b == sel["s2"]
    IN  /\ spc["s1"] = "wait_action" /\ a.completed
        /\ Len(a.cases) = 2 /\ a.selected = 2
        /\ a.cases[1].kind = "send" /\ a.how[1] = "wait"
        /\ a.wait_id[1] \notin send_wait_list_index["c"]
        /\ b.cases # <<>> /\ b.completed /\ b.how[1] = "wait"
        /\ b.cases[1].kind = "send"
        /\ b.wait_id[1] > a.wait_id[1]
        /\ last.kind = "recv" /\ last.c = "c" /\ last.ret
        /\ last.v = b.cases[1].v

\* C23: when a receive case wins a select call and select runs its action,
\* the out slot and the closed slot are written in the step that completes
\* the call (the buffered head taken by the case's own constructor, the value
\* of the send() that found the case registered, or closed = true), they are
\* not written again until select has returned, wait_and_action runs the
\* action of that case only after the call is completed, and select returns
\* only after the action.
C23_ActionSeesValue ==
    /\ [][\A s \in Selectors :
            (~sel[s].completed /\ sel'[s].completed /\ spc[s] # "idle") =>
                LET i == sel'[s].selected
                    ch == sel[s].cases[i].c
                IN  sel[s].cases[i].kind = "recv" =>
                      IF spc[s] = "reg_call" /\ sel[s].k = i
                      THEN IF queue[ch] # <<>>
                           THEN /\ ~sel'[s].closed[i]
                                /\ sel'[s].dat[i] = Head(queue[ch])
                           ELSE is_closed_[ch] /\ sel'[s].closed[i]
                      ELSE IF is_closed_'[ch] /\ ~is_closed_[ch]
                           THEN sel'[s].closed[i]
                           ELSE /\ ~sel'[s].closed[i]
                                /\ sel'[s].dat[i] = nextv
                                /\ nextv' = nextv + 1]_vars
    /\ [][\A s \in Selectors :
            (sel[s].completed /\ spc[s] # "idle") =>
                /\ sel'[s].dat = sel[s].dat
                /\ sel'[s].closed = sel[s].closed
                /\ sel'[s].selected = sel[s].selected]_vars
    /\ [][\A s \in Selectors :
            (spc[s] = "wait_action" /\ spc'[s] # "wait_action") =>
                /\ sel[s].completed /\ sel[s].acc = {sel[s].selected}
                /\ sel'[s].ran = sel[s].selected]_vars
    /\ [](\A s \in Selectors :
            Returned(s) =>
                /\ sel[s].ran # 0
                /\ sel[s].ran # DefaultIdx(sel[s]) =>
                      sel[s].completed /\ sel[s].ran = sel[s].selected)

\* a select call whose receive case was registered as a waiter has returned
\* after running the action of that case on a value sent by another thread
C23_Witness ==
    \E s \in Selectors : \E i \in 1..2 :
        /\ Returned(s)
        /\ i \in 1..Len(sel[s].cases)
        /\ sel[s].cases[i].kind = "recv"
        /\ sel[s].how[i] = "wait"
        /\ sel[s].ran = i /\ ~sel[s].closed[i]
        /\ sel[s].dat[i] \in 1..MaxSelVal

\* C24: close() is idempotent and the closed flag is monotonic.  No step
\* resets is_closed_; every close() returns with the flag set; a close() on
\* a closed channel changes nothing of any channel, of any select call or of
\* any sleeping thread (no notifier is called, nobody is woken).
C24_CloseOnce ==
    /\ [][\A ch \in Chans : is_closed_[ch] => is_closed_'[ch]]_vars
    /\ [][\A t \in DOMAIN pc : \A ch \in Chans :
            Close(t, ch) =>
                /\ is_closed_'[ch]
                /\ pc'[t] = "idle"
                /\ last' = [kind |-> "close", c |-> ch, ret |-> TRUE,
                            v |-> Default, slept |-> FALSE]
                /\ is_closed_[ch] =>
                      UNCHANGED <<chanVars, pc, op, selVars>>]_vars

\* close() has returned on a channel that was closed before: an earlier
\* recv had already returned false on it
C24_Witness ==
    /\ last.kind = "close"
    /\ is_closed_[last.c]
    /\ drained[last.c]

\* the receive calls in progress on channel ch: the recv() calls between
\* their entry and their return (receivers_ counts them) and the select
\* calls with a receive case on ch that have not returned
InProgress(ch) ==
    receivers_[ch] +
    Cardinality({s \in DOMAIN spc :
                    /\ spc[s] # "idle"
                    /\ \E i \in 1..Len(sel[s].cases) :
                          sel[s].cases[i].kind = "recv"
                          /\ sel[s].cases[i].c = ch})

\* C25: bounded buffer.  In every state the number of buffered values of a
\* channel is at most its capacity plus the number of receive calls in
\* progress on it.
C25_Bounded ==
    \A ch \in Chans : Len(queue[ch]) - InProgress(ch) <= capacity_[ch]

\* C26: the buffer of a closed channel never grows.  No step taken while
\* is_closed_ is set leaves the buffer of that channel longer than it was;
\* in particular a closed channel that has drained stays empty.
C26_ClosedNeverGrows ==
    [][\A ch \in Chans :
          is_closed_[ch] => Len(queue'[ch]) <= Len(queue[ch])]_vars

====
